---------------------------- MODULE Spec2Model ----------------------------
(***************************************************************************)
(* The CarsXE Go client: the error-returning client (src/main.go) and the  *)
(* panic-style client (src/unnamed/part_001), modelled side by side.       *)
(*                                                                         *)
(* Text is a sequence of atoms.  An atom is either one special character   *)
(* ("/", "?", "&", "=", " ", tab, the double quote, ...) or a chunk of     *)
(* characters that none of the operations below looks into (letters,      *)
(* digits, "-", "_", "."; for a base URL or an image URL also the          *)
(* "scheme://host" part).  A definition that carries the suffix _p is the  *)
(* definition of the same name in the panic-style client.                  *)
(***************************************************************************)
EXTENDS Integers, Sequences, FiniteSets, TLC

(* ------------------------------ bounds -------------------------------- *)

\* Largest number of entries in a caller's parameter mapping.
MaxParams == 1
\* Largest run of "/" (around a base URL or an endpoint) or of white space
\* (around an image URL) that a caller passes.
MaxPad == 1
\* Largest number of options passed to New.
MaxOpts == 1

(* ------------------------------- text --------------------------------- *)

SLASH == "/"
QMARK == "?"
AMP == "&"
EQ == "="
SP == " "
TAB == "\t"
NL == "\n"
QUOTE == "\""

\* unicode.IsSpace, as far as the atoms go.
WhiteSpace == {SP, TAB, NL}
\* ASCII control characters (< 0x20 or 0x7f), as far as the atoms go.
ControlChars == {TAB, NL}

RECURSIVE TrimLeft(_, _)
\* strings.TrimLeft(s, cutset)
TrimLeft(s, cutset) ==
    IF s # <<>> /\ Head(s) \in cutset THEN TrimLeft(Tail(s), cutset) ELSE s

RECURSIVE TrimRight(_, _)
\* strings.TrimRight(s, cutset)
TrimRight(s, cutset) ==
    IF s # <<>> /\ s[Len(s)] \in cutset
    THEN TrimRight(SubSeq(s, 1, Len(s) - 1), cutset)
    ELSE s

\* A check that forgets to trim: the text as it is.
TrimSpaceNone(s) == s

\* strings.TrimSpace(s)
TrimSpace(s) == TrimRight(TrimLeft(s, WhiteSpace), WhiteSpace)

\* strings.Contains(s, sub)
Contains(s, sub) ==
    \E i \in 0..(Len(s) - Len(sub)) : SubSeq(s, i + 1, i + Len(sub)) = sub

\* The position of the first atom of s that is in set, or 0.
RECURSIVE IndexFrom(_, _, _)
IndexFrom(s, set, i) ==
    IF i > Len(s) THEN 0
    ELSE IF s[i] \in set THEN i
    ELSE IndexFrom(s, set, i + 1)

IndexAny(s, set) == IndexFrom(s, set, 1)

\* n copies of the atom a.
Rep(a, n) == [i \in 1..n |-> a]

(* ---------------------------- net/url -------------------------------- *)

\* What a parse, a build or a request hands back when nothing went wrong.
NoErr == <<>>

\* url.QueryEscape on one atom: letters, digits, "-", "_", "." and "~" stay,
\* a space becomes "+", every other character its %XX form.
EscapeAtom(a) ==
    CASE a = SP -> "+"
      [] a = TAB -> "%09"
      [] a = NL -> "%0A"
      [] a = QUOTE -> "%22"
      [] a = AMP -> "%26"
      [] a = "+" -> "%2B"
      [] a = SLASH -> "%2F"
      [] a = EQ -> "%3D"
      [] a = QMARK -> "%3F"
      [] OTHER -> a

\* url.QueryEscape(s)
QueryEscape(s) == [i \in 1..Len(s) |-> EscapeAtom(s[i])]

\* url.QueryUnescape on one atom.
UnescapeAtom(a) ==
    CASE a = "+" -> SP
      [] a = "%09" -> TAB
      [] a = "%0A" -> NL
      [] a = "%22" -> QUOTE
      [] a = "%26" -> AMP
      [] a = "%2B" -> "+"
      [] a = "%2F" -> SLASH
      [] a = "%3D" -> EQ
      [] a = "%3F" -> QMARK
      [] OTHER -> a

\* url.QueryUnescape(s)
QueryUnescape(s) == [i \in 1..Len(s) |-> UnescapeAtom(s[i])]

\* url.Values: a function from the names present to their lists of values.
EmptyValues == [k \in {} |-> <<>>]

\* The values of k in q, none when k is absent.
ValuesOf(q, k) == IF k \in DOMAIN q THEN q[k] ELSE <<>>

\* Values.Set(k, v)
ValuesSet(q, k, v) == [n \in DOMAIN q \cup {k} |-> IF n = k THEN <<v>> ELSE q[n]]

\* Values.Add(k, v)
ValuesAdd(q, k, v) ==
    [n \in DOMAIN q \cup {k} |-> IF n = k THEN ValuesOf(q, k) \o <<v>> ELSE q[n]]

\* The parameter names of the model, in the order sort.Strings gives them.
SortedNames == <<"country", "image", "key", "plate", "source", "state", "vin">>

\* a and b joined by sep, an empty side dropped.
Join(a, sep, b) == IF a = <<>> THEN b ELSE IF b = <<>> THEN a ELSE a \o <<sep>> \o b

\* "k=v1&k=v2" for the values of one name, each escaped.
RECURSIVE EncodeKey(_, _)
EncodeKey(k, vs) ==
    IF vs = <<>> THEN <<>>
    ELSE Join(<<EscapeAtom(k), EQ>> \o QueryEscape(Head(vs)), AMP, EncodeKey(k, Tail(vs)))

\* Values.Encode(): "k=v" pairs joined by "&", sorted by name.
RECURSIVE EncodeFrom(_, _)
EncodeFrom(q, i) ==
    IF i > Len(SortedNames) THEN <<>>
    ELSE Join(EncodeKey(SortedNames[i], ValuesOf(q, SortedNames[i])), AMP,
              EncodeFrom(q, i + 1))

Encode(q) == EncodeFrom(q, 1)

\* s up to position i - 1, all of s when i = 0.
Before(s, i) == IF i = 0 THEN s ELSE SubSeq(s, 1, i - 1)

\* s from position i + 1, nothing when i = 0.
After(s, i) == IF i = 0 THEN <<>> ELSE SubSeq(s, i + 1, Len(s))

\* q with the value v put in front of the values of k.
ValuesPush(q, k, v) ==
    [n \in DOMAIN q \cup {k} |-> IF n = k THEN <<v>> \o ValuesOf(q, k) ELSE q[n]]

\* One "name=value" piece, cut at position eq of its first "=", in front of
\* the values parsed after it.  A name is one atom.
ParsePiece(piece, eq, later) ==
    IF piece = <<>> THEN later
    ELSE ValuesPush(later,
                    IF Before(piece, eq) = <<>> THEN "" ELSE UnescapeAtom(piece[1]),
                    QueryUnescape(After(piece, eq)))

RECURSIVE ParseQuery(_)

\* The query s, its first "&" at position amp.
ParsePieces(s, amp) ==
    ParsePiece(Before(s, amp), IndexAny(Before(s, amp), {EQ}), ParseQuery(After(s, amp)))

\* url.ParseQuery(s), errors dropped as URL.Query() drops them: the pieces
\* between "&", each cut at its first "=", both halves unescaped.
ParseQuery(s) == IF s = <<>> THEN EmptyValues ELSE ParsePieces(s, IndexAny(s, {AMP}))

\* rawURL cut at position q of its first "?".
ParseAt(rawURL, q) ==
    [err |-> NoErr, Prefix |-> Before(rawURL, q), RawQuery |-> After(rawURL, q)]

\* url.Parse(rawURL): an error for a control character, else the text before
\* the first "?" (scheme, host and path) and the raw query after it.  The
\* URLs of the model are "scheme://host" text followed by path atoms, with no
\* fragment, so the control character is the one way a parse fails here.
Parse(rawURL) ==
    IF \E i \in DOMAIN rawURL : rawURL[i] \in ControlChars
    THEN [err |-> <<"parse ">> \o rawURL \o <<": net/url: invalid control character in URL">>,
          Prefix |-> <<>>, RawQuery |-> <<>>]
    ELSE ParseAt(rawURL, IndexAny(rawURL, {QMARK}))

\* URL.Query()
Query(u) == ParseQuery(u.RawQuery)

\* URL.String()
String(u) == Join(u.Prefix, QMARK, u.RawQuery)

(* -------------------------- encoding/json ---------------------------- *)

\* JSON text is a sequence of tokens: the structural characters, the double
\* quote, white space, the literals, and the atoms of a string's content.
Literals == {"null", "true", "false"}
Numbers == {"0", "1", "404"}

\* The first position at or after i that holds no white space.
RECURSIVE SkipWS(_, _)
SkipWS(t, i) == IF i <= Len(t) /\ t[i] \in WhiteSpace THEN SkipWS(t, i + 1) ELSE i

\* The escapes encoding/json writes inside a string (HTML escaping is on).
JSONEscapeAtom(a) ==
    CASE a = QUOTE -> "\\\""
      [] a = "\\" -> "\\\\"
      [] a = TAB -> "\\t"
      [] a = NL -> "\\n"
      [] a = AMP -> "\\u0026"
      [] a = "<" -> "\\u003c"
      [] a = ">" -> "\\u003e"
      [] OTHER -> a

JSONEscape(s) == [i \in 1..Len(s) |-> JSONEscapeAtom(s[i])]

\* What encoding/json reads an escape inside a string as.
JSONUnescapeAtom(a) ==
    CASE a = "\\\"" -> QUOTE
      [] a = "\\\\" -> "\\"
      [] a = "\\t" -> TAB
      [] a = "\\n" -> NL
      [] a = "\\u0026" -> AMP
      [] a = "\\u003c" -> "<"
      [] a = "\\u003e" -> ">"
      [] OTHER -> a

JSONUnescape(s) == [i \in 1..Len(s) |-> JSONUnescapeAtom(s[i])]

\* A scan that failed.
Bad == [ok |-> FALSE, next |-> 0, kind |-> "", text |-> <<>>, members |-> <<>>]

\* A scanned value of the given kind that ends before position next; text
\* is the content of a string or the tokens of any other value, members are
\* those of an object.
Scanned(kind, next, text, members) ==
    [ok |-> TRUE, next |-> next, kind |-> kind, text |-> text, members |-> members]

\* The string literal opened at i and closed at close (0: never closed); no
\* raw control character may stand inside.
StringTo(t, i, close) ==
    IF close = 0 \/ (\E j \in (i + 1)..(close - 1) : t[j] \in ControlChars)
    THEN Bad
    ELSE Scanned("string", close + 1, JSONUnescape(SubSeq(t, i + 1, close - 1)), <<>>)

\* A string literal at t[i] = QUOTE.
ScanString(t, i) == StringTo(t, i, IndexFrom(t, {QUOTE}, i + 1))

\* acc with key k set to the scanned value val, a duplicate key replaced.
PutMember(acc, k, val) ==
    [n \in DOMAIN acc \cup {k} |->
        IF n = k THEN [kind |-> val.kind, text |-> val.text] ELSE acc[n]]

RECURSIVE ScanValue(_, _)
RECURSIVE ScanMembers(_, _, _)
RECURSIVE ScanElements(_, _)

\* After a member's value val, at position after: "}" ends the object and
\* "," goes on to the next member.
MembersNext(t, acc, val, after) ==
    IF ~val.ok \/ after > Len(t) THEN Bad
    ELSE IF t[after] = "}" THEN Scanned("object", after + 1, <<>>, acc)
    ELSE IF t[after] = "," THEN ScanMembers(t, after + 1, acc)
    ELSE Bad

\* After a member's key and ":", its value val.
MemberValue(t, acc, key, val) ==
    MembersNext(t, PutMember(acc, key.text, val), val, SkipWS(t, val.next))

\* After a member's key, at position colon.
MemberColon(t, acc, key, colon) ==
    IF ~key.ok \/ colon > Len(t) \/ t[colon] # ":" THEN Bad
    ELSE MemberValue(t, acc, key, ScanValue(t, SkipWS(t, colon + 1)))

\* A member whose key was scanned.
MemberKey(t, acc, key) == MemberColon(t, acc, key, SkipWS(t, key.next))

\* A member that starts at position k.
MemberAt(t, acc, k) ==
    IF k > Len(t) \/ t[k] # QUOTE THEN Bad ELSE MemberKey(t, acc, ScanString(t, k))

\* The members of an object from position i (after "{" or ","), added to
\* acc: a function from each key to [kind, text] of its value.
ScanMembers(t, i, acc) == MemberAt(t, acc, SkipWS(t, i))

\* After an element val, at position after.
ElementsNext(t, val, after) ==
    IF ~val.ok \/ after > Len(t) THEN Bad
    ELSE IF t[after] = "]" THEN Scanned("array", after + 1, <<>>, <<>>)
    ELSE IF t[after] = "," THEN ScanElements(t, after + 1)
    ELSE Bad

ElementValue(t, val) == ElementsNext(t, val, SkipWS(t, val.next))

\* The elements of an array from position i (after "[" or ",").
ScanElements(t, i) == ElementValue(t, ScanValue(t, SkipWS(t, i)))

\* The object or array r opened at i, with its tokens as text.
Whole(t, i, r) == IF r.ok THEN [r EXCEPT !.text = SubSeq(t, i, r.next - 1)] ELSE Bad

\* An object opened at i whose first token after "{" is at k.
ObjectAt(t, i, k) ==
    IF k <= Len(t) /\ t[k] = "}" THEN Scanned("object", k + 1, <<>>, <<>>)
    ELSE ScanMembers(t, i + 1, <<>>)

\* An array opened at i whose first token after "[" is at k.
ArrayAt(t, i, k) ==
    IF k <= Len(t) /\ t[k] = "]" THEN Scanned("array", k + 1, <<>>, <<>>)
    ELSE ScanElements(t, i + 1)

\* One JSON value at position i.
ScanValue(t, i) ==
    IF i > Len(t) THEN Bad
    ELSE IF t[i] = QUOTE THEN ScanString(t, i)
    ELSE IF t[i] = "null" THEN Scanned("null", i + 1, <<t[i]>>, <<>>)
    ELSE IF t[i] \in Literals THEN Scanned("bool", i + 1, <<t[i]>>, <<>>)
    ELSE IF t[i] \in Numbers THEN Scanned("number", i + 1, <<t[i]>>, <<>>)
    ELSE IF t[i] = "{" THEN Whole(t, i, ObjectAt(t, i, SkipWS(t, i + 1)))
    ELSE IF t[i] = "[" THEN Whole(t, i, ArrayAt(t, i, SkipWS(t, i + 1)))
    ELSE Bad

\* A Go map value: nil or not, and its entries.
NilMap == [nil |-> TRUE, m |-> <<>>]
MakeMap(f) == [nil |-> FALSE, m |-> f]

\* json.Unmarshal once the first value v of data is scanned: a syntax error
\* unless data is that one value; null leaves out nil; an object fills it;
\* any other value is a type error.
UnmarshalValue(data, v) ==
    IF ~v.ok \/ SkipWS(data, v.next) <= Len(data)
    THEN [err |-> <<"json: syntax error">>, out |-> NilMap]
    ELSE IF v.kind = "null" THEN [err |-> NoErr, out |-> NilMap]
    ELSE IF v.kind = "object" THEN [err |-> NoErr, out |-> MakeMap(v.members)]
    ELSE [err |-> <<"json: cannot unmarshal ", v.kind,
                    " into Go value of type map[string]interface {}">>,
          out |-> NilMap]

\* json.Unmarshal(data, &out) for out a nil map[string]any.
Unmarshal(data) == UnmarshalValue(data, ScanValue(data, SkipWS(data, 1)))

\* One member of a JSON object of strings.
EncodeMember(m, k) ==
    IF k \in DOMAIN m
    THEN <<QUOTE, k, QUOTE, ":", QUOTE>> \o JSONEscape(m[k]) \o <<QUOTE>>
    ELSE <<>>

\* The members of a JSON object, its keys sorted.
RECURSIVE EncodeMembers(_, _)
EncodeMembers(m, names) ==
    IF names = <<>> THEN <<>>
    ELSE Join(EncodeMember(m, Head(names)), ",", EncodeMembers(m, Tail(names)))

\* json.NewEncoder(&buf).Encode(body) for body a map[string]string: the
\* object and a newline.  It has no failing case.
EncodeJSON(body) ==
    (IF body.nil THEN <<"null">> ELSE <<"{">> \o EncodeMembers(body.m, SortedNames) \o <<"}">>)
    \o <<NL>>

(* ----------------------------- net/http ------------------------------ *)

NoHeader == [h \in {} |-> ""]

\* http.NewRequestWithContext(ctx, method, url, body): fails for a nil
\* context and for a URL that does not parse.
NewRequestWithContext(ctxNil, method, urlStr, body) ==
    IF ctxNil
    THEN [err |-> <<"net/http: nil Context">>,
          Method |-> method, URL |-> <<>>, Header |-> NoHeader, Body |-> <<>>]
    ELSE [err |-> Parse(urlStr).err,
          Method |-> method, URL |-> urlStr, Header |-> NoHeader, Body |-> body]

\* http.NewRequest(method, url, body): the same with context.Background().
NewRequest(method, urlStr, body) == NewRequestWithContext(FALSE, method, urlStr, body)

\* req.Header.Set(name, value)
HeaderSet(req, name, value) ==
    [req EXCEPT !.Header = [h \in DOMAIN req.Header \cup {name} |->
                               IF h = name THEN value ELSE req.Header[h]]]

(* ------------------------------ results ------------------------------- *)

\* What a call hands back: kind is "ok", "error" (an error value) or "panic";
\* out is the mapping; msg the text of the error or of the panic; sent the
\* requests handed to httpClient.Do; stage the step that failed.
Ok(out, sent) ==
    [kind |-> "ok", out |-> out, msg |-> <<>>, sent |-> sent, stage |-> "none"]

Error(msg, sent, stage) ==
    [kind |-> "error", out |-> NilMap, msg |-> msg, sent |-> sent, stage |-> stage]

Panic(msg, sent, stage) ==
    [kind |-> "panic", out |-> NilMap, msg |-> msg, sent |-> sent, stage |-> stage]

\* No call made yet.
None == [kind |-> "none", out |-> NilMap, msg |-> <<>>, sent |-> <<>>, stage |-> "none"]

(* ------------------------ the client, src/main.go --------------------- *)

DefaultBaseURL == <<"https://api.carsxe.com">>
DefaultSource == <<"go">>

\* WithBaseURL(u)
WithBaseURL(u, c) == [c EXCEPT !.baseURL = TrimRight(u, {SLASH})]

\* WithSource(src)
WithSource(src, c) == [c EXCEPT !.source = src]

\* An option is [opt, arg]; this applies it to c.
ApplyOption(o, c) ==
    IF o.opt = "WithBaseURL" THEN WithBaseURL(o.arg, c) ELSE WithSource(o.arg, c)

RECURSIVE ApplyOptions(_, _)
ApplyOptions(opts, c) ==
    IF opts = <<>> THEN c ELSE ApplyOptions(Tail(opts), ApplyOption(Head(opts), c))

\* New(apiKey, opts...)
New(apiKey, opts) ==
    ApplyOptions(opts, [apiKey |-> apiKey, baseURL |-> DefaultBaseURL, source |-> DefaultSource])

\* A loop that adds every entry, empty or not.
AddParamAlways(q, k, v) == ValuesAdd(q, k, v)

\* if v != "" { q.Add(k, v) }
AddParam(q, k, v) == IF v # <<>> THEN ValuesAdd(q, k, v) ELSE q

\* The next key the loop over the map visits: any of those left.
NextKey(keys) == CHOOSE x \in keys : TRUE

\* for k, v := range params { ... }, over the keys not yet visited; the
\* order of a map's keys does not change the result.
RECURSIVE AddParams(_, _, _)
AddParams(q, m, keys) ==
    IF keys = {} THEN q
    ELSE AddParams(AddParam(q, NextKey(keys), m[NextKey(keys)]), m, keys \ {NextKey(keys)})

\* buildURL after url.Parse gave u without an error.
BuildQuery(c, u, params) ==
    String([u EXCEPT !.RawQuery =
        Encode(AddParams(ValuesSet(ValuesSet(Query(u), "key", c.apiKey), "source", c.source),
                         params.m, DOMAIN params.m))])

\* buildURL once url.Parse has returned u.
buildURLParsed(c, u, params) ==
    IF u.err # NoErr THEN [url |-> <<>>, err |-> u.err]
    ELSE [url |-> BuildQuery(c, u, params), err |-> NoErr]

\* Client.buildURL
buildURL(c, endpoint, params) ==
    buildURLParsed(c, Parse(c.baseURL \o <<SLASH>> \o TrimLeft(endpoint, {SLASH})), params)

\* A decode error that leaves the body out of its text.
doRequestDecodedNoBody(req, env, d) ==
    IF d.err # NoErr
    THEN Error(<<"carsxe: decode error: ">> \o d.err, <<req>>, "decode")
    ELSE Ok(d.out, <<req>>)

\* doRequest once json.Unmarshal has returned d.
doRequestDecoded(req, env, d) ==
    IF d.err # NoErr
    THEN Error(<<"carsxe: decode error: ">> \o d.err \o <<" (body=">> \o env.body \o <<")">>,
               <<req>>, "decode")
    ELSE Ok(d.out, <<req>>)

\* A doRequest without the empty-body case: every body goes to the decoder.
doRequestNoEmpty(c, req, env) ==
    IF env.doErr THEN Error(env.errText, <<req>>, "transport")
    ELSE IF env.readErr THEN Error(env.errText, <<req>>, "read")
    ELSE IF env.status < 200 \/ env.status >= 300
    THEN Error(<<"carsxe: non-2xx response (", ToString(env.status), "): ">> \o env.body,
               <<req>>, "status")
    ELSE doRequestDecoded(req, env, Unmarshal(env.body))

\* A doRequest that sends the request a second time when the transport fails.
doRequestRetry(c, req, env) ==
    IF env.doErr THEN Error(env.errText, <<req, req>>, "transport")
    ELSE IF env.readErr THEN Error(env.errText, <<req>>, "read")
    ELSE IF env.status < 200 \/ env.status >= 300
    THEN Error(<<"carsxe: non-2xx response (", ToString(env.status), "): ">> \o env.body,
               <<req>>, "status")
    ELSE IF Len(env.body) = 0 THEN Ok(MakeMap(<<>>), <<req>>)
    ELSE doRequestDecoded(req, env, Unmarshal(env.body))

\* Client.doRequest; env is what the transport does with the request.
doRequest(c, req, env) ==
    IF env.doErr THEN Error(env.errText, <<req>>, "transport")
    ELSE IF env.readErr THEN Error(env.errText, <<req>>, "read")
    ELSE IF env.status < 200 \/ env.status >= 300
    THEN Error(<<"carsxe: non-2xx response (", ToString(env.status), "): ">> \o env.body,
               <<req>>, "status")
    ELSE IF Len(env.body) = 0 THEN Ok(MakeMap(<<>>), <<req>>)
    ELSE doRequestDecoded(req, env, Unmarshal(env.body))

\* Get once http.NewRequestWithContext has returned req.
GetSend(c, req, env) ==
    IF req.err # NoErr THEN Error(req.err, <<>>, "newRequest")
    ELSE doRequest(c, req, env)

\* Get once buildURL has returned b.
GetBuilt(c, ctxNil, b, env) ==
    IF b.err # NoErr THEN Error(b.err, <<>>, "buildURL")
    ELSE GetSend(c, NewRequestWithContext(ctxNil, "GET", b.url, <<>>), env)

\* Client.Get
Get(c, ctxNil, endpoint, params, env) ==
    GetBuilt(c, ctxNil,
             buildURL(c, endpoint, IF params.nil THEN MakeMap(<<>>) ELSE params), env)

\* A postJSON that does not set the Content-Type header.
postJSONSendNoHeader(c, req, env) ==
    IF req.err # NoErr THEN Error(req.err, <<>>, "newRequest")
    ELSE doRequest(c, req, env)

\* postJSON once http.NewRequestWithContext has returned req.
postJSONSend(c, req, env) ==
    IF req.err # NoErr THEN Error(req.err, <<>>, "newRequest")
    ELSE doRequest(c, HeaderSet(req, "Content-Type", "application/json"), env)

\* postJSON once buildURL has returned b.
postJSONBuilt(c, ctxNil, b, body, env) ==
    IF b.err # NoErr THEN Error(b.err, <<>>, "buildURL")
    ELSE postJSONSend(c,
             NewRequestWithContext(ctxNil, "POST", b.url,
                                   IF body.nil THEN <<>> ELSE EncodeJSON(body)),
             env)

\* Client.postJSON
postJSON(c, ctxNil, endpoint, body, env) ==
    postJSONBuilt(c, ctxNil, buildURL(c, endpoint, NilMap), body, env)

\* The body of PlateImageRecognition and of VinOCR, which differ in the path.
ImageCall(c, ctxNil, path, imageURL, env) ==
    IF TrimSpace(imageURL) = <<>>
    THEN Error(<<"image URL required">>, <<>>, "validate")
    ELSE postJSON(c, ctxNil, path, MakeMap([k \in {"image"} |-> imageURL]), env)

(* ------------------ the client, src/unnamed/part_001 ------------------ *)

\* buildURL once url.Parse has returned u.
buildURLParsed_p(c, u, params) ==
    IF u.err # NoErr THEN [url |-> <<>>, err |-> <<"Failed to parse URL: ">> \o u.err]
    ELSE [url |-> BuildQuery(c, u, params), err |-> NoErr]

\* Client.buildURL
buildURL_p(c, endpoint, params) ==
    buildURLParsed_p(c, Parse(c.baseURL \o <<SLASH>> \o TrimLeft(endpoint, {SLASH})), params)

\* doRequest once json.Unmarshal has returned d.
doRequestDecoded_p(req, env, d) ==
    IF d.err # NoErr
    THEN Panic(<<"Failed to decode JSON: ">> \o d.err \o <<" (body=">> \o env.body \o <<")">>,
               <<req>>, "decode")
    ELSE Ok(d.out, <<req>>)

\* Client.doRequest
doRequest_p(c, req, env) ==
    IF env.doErr THEN Panic(<<"HTTP request failed: ">> \o env.errText, <<req>>, "transport")
    ELSE IF env.readErr
    THEN Panic(<<"Failed to read response body: ">> \o env.errText, <<req>>, "read")
    ELSE IF Len(env.body) = 0 THEN Ok(MakeMap(<<>>), <<req>>)
    ELSE doRequestDecoded_p(req, env, Unmarshal(env.body))

\* Get once http.NewRequest has returned req.
GetSend_p(c, req, env) ==
    IF req.err # NoErr
    THEN Panic(<<"Failed to create request: ">> \o req.err, <<>>, "newRequest")
    ELSE doRequest_p(c, req, env)

\* Get once buildURL has returned b.
GetBuilt_p(c, b, env) ==
    IF b.err # NoErr THEN Panic(b.err, <<>>, "buildURL")
    ELSE GetSend_p(c, NewRequest("GET", b.url, <<>>), env)

\* Client.Get
Get_p(c, endpoint, params, env) ==
    GetBuilt_p(c, buildURL_p(c, endpoint, IF params.nil THEN MakeMap(<<>>) ELSE params), env)

\* postJSON once http.NewRequest has returned req.
postJSONSend_p(c, req, env) ==
    IF req.err # NoErr
    THEN Panic(<<"Failed to create request: ">> \o req.err, <<>>, "newRequest")
    ELSE doRequest_p(c, HeaderSet(req, "Content-Type", "application/json"), env)

\* postJSON once buildURL has returned b.
postJSONBuilt_p(c, b, body, env) ==
    IF b.err # NoErr THEN Panic(b.err, <<>>, "buildURL")
    ELSE postJSONSend_p(c,
             NewRequest("POST", b.url, IF body.nil THEN <<>> ELSE EncodeJSON(body)), env)

\* Client.postJSON
postJSON_p(c, endpoint, body, env) ==
    postJSONBuilt_p(c, buildURL_p(c, endpoint, NilMap), body, env)

\* The body of PlateImageRecognition and of VinOCR, which differ in the path.
ImageCall_p(c, path, imageURL, env) ==
    IF TrimSpace(imageURL) = <<>>
    THEN Panic(<<"image URL required">>, <<>>, "validate")
    ELSE postJSON_p(c, path, MakeMap([k \in {"image"} |-> imageURL]), env)

(* --------------------- callers and the transport ---------------------- *)

ApiKeys == {<<>>, <<"YOUR_API_KEY">>}

\* Arguments of WithBaseURL: a base URL with up to MaxPad trailing "/", and
\* one that url.Parse rejects.
BaseURLArgs ==
    {<<"http://localhost:8080">> \o Rep(SLASH, n) : n \in 0..MaxPad}
    \cup {<<"http://local", TAB, "host">>}

SourceArgs == {<<"my", SP, "app">>}

Options ==
    {[opt |-> "WithBaseURL", arg |-> u] : u \in BaseURLArgs}
    \cup {[opt |-> "WithSource", arg |-> x] : x \in SourceArgs}

OptionLists == UNION {[1..n -> Options] : n \in 0..MaxOpts}

Clients == {New(k, opts) : k \in ApiKeys, opts \in OptionLists}

ParamNames == {"key", "source", "vin"}
ParamValues == {<<>>, <<"a", SP, "b", AMP, "key", EQ, "x">>}

\* The README's PlateDecoder example.
ReadmeParams ==
    MakeMap([k \in {"plate", "state", "country"} |->
                IF k = "plate" THEN <<"7XER187">>
                ELSE IF k = "state" THEN <<"CA">> ELSE <<"US">>])

ParamMaps ==
    {NilMap, ReadmeParams}
    \cup {MakeMap(f) : f \in UNION {[D -> ParamValues] :
                         D \in {X \in SUBSET ParamNames : Cardinality(X) <= MaxParams}}}

ImageBodies ==
    {<<>>,
     <<"https://img.example/plate.jpg", QMARK, "a", EQ, "1", AMP, "q", EQ, QUOTE, "x", QUOTE>>}

\* Image URLs: nothing or a URL, inside up to MaxPad white space each side.
ImageURLs == {Rep(SP, n) \o b \o Rep(TAB, n) : n \in 0..MaxPad, b \in ImageBodies}

\* Endpoints passed to Get directly: up to MaxPad leading "/", or a query
\* of the endpoint's own.
GenericEndpoints ==
    {Rep(SLASH, n) \o <<"specs">> : n \in 1..MaxPad}
    \cup {<<"specs", QMARK, "key", EQ, "old", AMP, "vin", EQ>>}

GetMethods ==
    {"Specs", "MarketValue", "History", "Recalls", "InternationalVINDecoder",
     "PlateDecoder", "YearMakeModel", "Images", "ObdCodesDecoder"}
ImageMethods == {"PlateImageRecognition", "VinOCR"}

\* The arguments of one call; ctxNil (a nil context) is read by src/main.go
\* only.  A nil context is passed with no parameters, or with any image URL.
Calls ==
    {[method |-> m, endpoint |-> <<>>, params |-> p, imageURL |-> <<>>, ctxNil |-> FALSE] :
        m \in GetMethods, p \in ParamMaps}
    \cup {[method |-> "Get", endpoint |-> e, params |-> p, imageURL |-> <<>>, ctxNil |-> FALSE] :
        e \in GenericEndpoints, p \in ParamMaps}
    \cup {[method |-> m, endpoint |-> <<>>, params |-> NilMap, imageURL |-> <<>>, ctxNil |-> TRUE] :
        m \in GetMethods}
    \cup {[method |-> m, endpoint |-> <<>>, params |-> NilMap, imageURL |-> i, ctxNil |-> n] :
        m \in ImageMethods, i \in ImageURLs, n \in BOOLEAN}

Idle == [method |-> "none", endpoint |-> <<>>, params |-> NilMap, imageURL |-> <<>>,
         ctxNil |-> FALSE]

Statuses == {199, 200, 299, 300}

Bodies ==
    {<<>>,
     <<"{", QUOTE, "vin", QUOTE, ":", SP, QUOTE, "W1", QUOTE, ",",
       QUOTE, "input", QUOTE, ":", "{", QUOTE, "n", QUOTE, ":", "1", "}", "}", NL>>,
     <<"null">>,
     <<"[", "1", "]">>,
     <<"{", QUOTE, "vin", QUOTE, ":">>}

\* What the transport does with a request: fail, fail while the body is
\* read, or answer with a status and a body.  The http.Client in use (the
\* default one with its 15 s timeout, or the one WithHTTPClient set) decides
\* which of these happens, not what the client does next.
Envs ==
    {[doErr |-> TRUE, readErr |-> FALSE, status |-> 0, body |-> <<>>,
      errText |-> <<"dial tcp: connection refused">>],
     [doErr |-> FALSE, readErr |-> TRUE, status |-> 200, body |-> <<>>,
      errText |-> <<"unexpected EOF">>]}
    \cup {[doErr |-> FALSE, readErr |-> FALSE, status |-> x, body |-> b, errText |-> <<>>] :
            x \in Statuses, b \in Bodies}

NoEnv == [doErr |-> FALSE, readErr |-> FALSE, status |-> 0, body |-> <<>>, errText |-> <<>>]

Variants == {"error", "panic"}

(* ------------------------------- state -------------------------------- *)

VARIABLES
    c,      \* the client New built
    args,   \* the arguments of the call under way, or Idle
    env,    \* what the transport does during this call
    res     \* per client variant, what the call returned, or None

vars == <<c, args, env, res>>

Init ==
    /\ c \in Clients
    /\ args = Idle
    /\ env = NoEnv
    /\ res = [v \in Variants |-> None]

\* A caller chooses a method and its arguments; the transport's behaviour
\* for the call is fixed.
Prepare ==
    /\ args = Idle
    /\ args' \in Calls
    /\ env' \in Envs
    /\ res' = [v \in Variants |-> None]
    /\ UNCHANGED c

\* Variant v runs method m once and returns r.
Call(v, m, r) ==
    /\ args.method = m
    /\ res[v] = None
    /\ res' = [res EXCEPT ![v] = r]
    /\ UNCHANGED <<c, args, env>>

\* The endpoint methods of src/main.go.
Specs == Call("error", "Specs", Get(c, args.ctxNil, <<"specs">>, args.params, env))
MarketValue ==
    Call("error", "MarketValue",
         Get(c, args.ctxNil, <<"v2", SLASH, "marketvalue">>, args.params, env))
History == Call("error", "History", Get(c, args.ctxNil, <<"history">>, args.params, env))
Recalls ==
    Call("error", "Recalls", Get(c, args.ctxNil, <<"v1", SLASH, "recalls">>, args.params, env))
InternationalVINDecoder ==
    Call("error", "InternationalVINDecoder",
         Get(c, args.ctxNil, <<"v1", SLASH, "international-vin-decoder">>, args.params, env))
\* PlateDecoder on the path of the previous version of the endpoint.
PlateDecoderV1 ==
    Call("error", "PlateDecoder",
         Get(c, args.ctxNil, <<"v1", SLASH, "platedecoder">>, args.params, env))

PlateDecoder ==
    Call("error", "PlateDecoder",
         Get(c, args.ctxNil, <<"v2", SLASH, "platedecoder">>, args.params, env))
PlateImageRecognition ==
    Call("error", "PlateImageRecognition",
         ImageCall(c, args.ctxNil, <<"platerecognition">>, args.imageURL, env))
VinOCR ==
    Call("error", "VinOCR",
         ImageCall(c, args.ctxNil, <<"v1", SLASH, "vinocr">>, args.imageURL, env))
YearMakeModel ==
    Call("error", "YearMakeModel", Get(c, args.ctxNil, <<"v1", SLASH, "ymm">>, args.params, env))
Images == Call("error", "Images", Get(c, args.ctxNil, <<"images">>, args.params, env))
ObdCodesDecoder ==
    Call("error", "ObdCodesDecoder",
         Get(c, args.ctxNil, <<"obdcodesdecoder">>, args.params, env))
\* A direct call of the exported Get.
GetCall == Call("error", "Get", Get(c, args.ctxNil, args.endpoint, args.params, env))

\* The endpoint methods of src/unnamed/part_001.
Specs_p == Call("panic", "Specs", Get_p(c, <<"specs">>, args.params, env))
MarketValue_p ==
    Call("panic", "MarketValue", Get_p(c, <<"v2", SLASH, "marketvalue">>, args.params, env))
History_p == Call("panic", "History", Get_p(c, <<"history">>, args.params, env))
Recalls_p == Call("panic", "Recalls", Get_p(c, <<"v1", SLASH, "recalls">>, args.params, env))
InternationalVINDecoder_p ==
    Call("panic", "InternationalVINDecoder",
         Get_p(c, <<"v1", SLASH, "international-vin-decoder">>, args.params, env))
PlateDecoder_p ==
    Call("panic", "PlateDecoder", Get_p(c, <<"v2", SLASH, "platedecoder">>, args.params, env))
PlateImageRecognition_p ==
    Call("panic", "PlateImageRecognition",
         ImageCall_p(c, <<"platerecognition">>, args.imageURL, env))
VinOCR_p ==
    Call("panic", "VinOCR", ImageCall_p(c, <<"v1", SLASH, "vinocr">>, args.imageURL, env))
YearMakeModel_p ==
    Call("panic", "YearMakeModel", Get_p(c, <<"v1", SLASH, "ymm">>, args.params, env))
Images_p == Call("panic", "Images", Get_p(c, <<"images">>, args.params, env))
ObdCodesDecoder_p ==
    Call("panic", "ObdCodesDecoder", Get_p(c, <<"obdcodesdecoder">>, args.params, env))
GetCall_p == Call("panic", "Get", Get_p(c, args.endpoint, args.params, env))

\* Both clients have returned: the caller is free to call again.
Finish ==
    /\ args # Idle
    /\ \A v \in Variants : res[v] # None
    /\ args' = Idle
    /\ env' = NoEnv
    /\ res' = [v \in Variants |-> None]
    /\ UNCHANGED c

Next ==
    \/ Prepare
    \/ Specs \/ MarketValue \/ History \/ Recalls \/ InternationalVINDecoder
    \/ PlateDecoder \/ PlateImageRecognition \/ VinOCR \/ YearMakeModel
    \/ Images \/ ObdCodesDecoder \/ GetCall
    \/ Specs_p \/ MarketValue_p \/ History_p \/ Recalls_p \/ InternationalVINDecoder_p
    \/ PlateDecoder_p \/ PlateImageRecognition_p \/ VinOCR_p \/ YearMakeModel_p
    \/ Images_p \/ ObdCodesDecoder_p \/ GetCall_p
    \/ Finish

Spec == Init /\ [][Next]_vars

(* ----------------------------- observers ----------------------------- *)

\* The calls that have returned, and what they sent.
Returned(v) == res[v] # None
Sent(v) == res[v].sent
Failed(v) == res[v].kind \in {"error", "panic"}

\* A request as the server reads it: the URL up to "?", and its query.
SentPrefix(req) == Parse(req.URL).Prefix
SentQuery(req) == Query(Parse(req.URL))

\* The transport answered: a status and a whole body reached the client.
Answered(v) == Returned(v) /\ Sent(v) # <<>> /\ ~env.doErr /\ ~env.readErr
Is2xx == env.status >= 200 /\ env.status < 300

\* The endpoint table of the specification.
PathOf(m) ==
    CASE m = "Specs" -> <<"specs">>
      [] m = "InternationalVINDecoder" -> <<"v1", SLASH, "international-vin-decoder">>
      [] m = "PlateDecoder" -> <<"v2", SLASH, "platedecoder">>
      [] m = "MarketValue" -> <<"v2", SLASH, "marketvalue">>
      [] m = "History" -> <<"history">>
      [] m = "Images" -> <<"images">>
      [] m = "Recalls" -> <<"v1", SLASH, "recalls">>
      [] m = "PlateImageRecognition" -> <<"platerecognition">>
      [] m = "VinOCR" -> <<"v1", SLASH, "vinocr">>
      [] m = "YearMakeModel" -> <<"v1", SLASH, "ymm">>
      [] m = "ObdCodesDecoder" -> <<"obdcodesdecoder">>

VerbOf(m) == IF m \in ImageMethods THEN "POST" ELSE "GET"

\* What the caller's mapping p gives for the name n: its value, if not "".
CallerValues(p, n) == IF n \in DOMAIN p.m /\ p.m[n] # <<>> THEN <<p.m[n]>> ELSE <<>>

\* What the client itself gives for the name n.
ClientValues(n) ==
    IF n = "key" THEN <<c.apiKey>> ELSE IF n = "source" THEN <<c.source>> ELSE <<>>

\* The query of an endpoint method's URL, by the specification: key, source
\* and the caller's non-empty parameters.
ExpectedQuery(p) ==
    [n \in {"key", "source"} \cup {k \in DOMAIN p.m : p.m[k] # <<>>} |->
        ClientValues(n) \o CallerValues(p, n)]

\* The values the query holds before the caller's: the client's key and
\* source, and what the query of the endpoint text itself gives other names.
FixedValues(n) ==
    IF n \in {"key", "source"} THEN ClientValues(n)
    ELSE ValuesOf(Query(Parse(args.endpoint)), n)

\* White space only, the empty text included.
Blank(s) == \A i \in DOMAIN s : s[i] \in WhiteSpace

\* The request cannot be built: the URL does not parse, or (src/main.go) the
\* context is nil.
Unbuildable(v) ==
    \/ \E i \in DOMAIN c.baseURL : c.baseURL[i] \in ControlChars
    \/ v = "error" /\ args.ctxNil

\* The response bodies that are a JSON object, and those that are null.
ObjectBodies == {b \in Bodies : b # <<>> /\ b[1] = "{" /\ b[Len(b)] \in {"}", NL}}
NullBodies == {<<"null">>}

(* ------------------------------- claims ------------------------------- *)

\* C1: in every URL the client builds, the query parameters key and source
\* are present and hold exactly one value each, the client's API key and its
\* source tag, whatever the caller's mapping holds under those names.
C1_KeyAndSourceNotOverridable ==
    \A v \in Variants : \A i \in DOMAIN Sent(v) :
        LET q == SentQuery(Sent(v)[i])
        IN  ValuesOf(q, "key") = <<c.apiKey>> /\ ValuesOf(q, "source") = <<c.source>>

\* C2: a response with a status below 200 or from 300 up never gives a
\* mapping: the error-returning client returns an error whose text names the
\* status and holds the body, the panic-style client panics.
C2_Non2xxNeverAMapping ==
    \A v \in Variants :
        (Answered(v) /\ ~Is2xx) =>
            /\ res[v].kind = (IF v = "error" THEN "error" ELSE "panic")
            /\ res[v].out.nil
            /\ v = "error" =>
                /\ ToString(env.status) \in {res[v].msg[i] : i \in DOMAIN res[v].msg}
                /\ Contains(res[v].msg, env.body)

\* C3, as claimed: no parameter of a built URL has the value "", and every
\* entry of the caller's mapping with another value is in the URL with it.
C3_NoEmptyValueInURL ==
    \A v \in Variants : \A i \in DOMAIN Sent(v) :
        LET q == SentQuery(Sent(v)[i])
            p == args.params.m
        IN  /\ \A n \in DOMAIN q : \A j \in DOMAIN q[n] : q[n][j] # <<>>
            /\ \A n \in DOMAIN p :
                  p[n] # <<>> => \E j \in DOMAIN ValuesOf(q, n) : q[n][j] = p[n]

\* C3, amended: buildURL adds no value for an entry of the caller's mapping
\* whose value is "", and adds the value of every other entry as the last
\* value of its name; a value "" in the URL is the client's own empty API
\* key or source tag, or stood in the query of the endpoint text.
C3_CallerEmptyValuesDropped ==
    \A v \in Variants : \A i \in DOMAIN Sent(v) :
        LET q == SentQuery(Sent(v)[i])
            p == args.params.m
        IN  /\ \A n \in DOMAIN q : \A j \in DOMAIN q[n] :
                  q[n][j] = <<>> => j <= Len(FixedValues(n)) /\ FixedValues(n)[j] = <<>>
            /\ \A n \in DOMAIN p :
                  /\ p[n] # <<>> => ValuesOf(q, n) # <<>> /\ q[n][Len(q[n])] = p[n]
                  /\ p[n] = <<>> => Len(ValuesOf(q, n)) = Len(FixedValues(n))

\* C3 witness: a request went out for a caller's entry with the value "",
\* from a client whose API key is "".
C3_Witness ==
    \E v \in Variants :
        /\ Sent(v) # <<>>
        /\ c.apiKey = <<>>
        /\ \E n \in DOMAIN args.params.m : args.params.m[n] = <<>>

\* C4, as claimed: PlateImageRecognition and VinOCR with a blank image URL
\* fail and send nothing; with any other image URL they send exactly one
\* POST.
C4_ImageURLDecidesThePost ==
    \A v \in Variants :
        (Returned(v) /\ args.method \in ImageMethods) =>
            IF Blank(args.imageURL)
            THEN Failed(v) /\ Sent(v) = <<>>
            ELSE Len(Sent(v)) = 1 /\ Sent(v)[1].Method = "POST"

\* C4, amended: with a blank image URL the two methods fail with "image URL
\* required" and send nothing; with any other image URL they go on to
\* postJSON, which sends exactly one POST unless the URL or the request
\* cannot be built, and then fails and sends nothing.
C4_BlankImageURLRejected ==
    \A v \in Variants :
        (Returned(v) /\ args.method \in ImageMethods) =>
            IF Blank(args.imageURL)
            THEN Failed(v) /\ Sent(v) = <<>> /\ res[v].msg = <<"image URL required">>
            ELSE /\ res[v].msg # <<"image URL required">>
                 /\ IF Unbuildable(v)
                    THEN Failed(v) /\ Sent(v) = <<>>
                    ELSE Len(Sent(v)) = 1 /\ Sent(v)[1].Method = "POST"

\* C4 witness: an image URL of white space was rejected by both clients.
C4_Witness ==
    /\ args.method \in ImageMethods
    /\ args.imageURL # <<>> /\ Blank(args.imageURL)
    /\ \A v \in Variants : Failed(v)

\* C5: a 2xx response with a body of zero bytes gives an empty mapping, not
\* nil, and no error, from Get, from postJSON and from every endpoint method.
C5_EmptyBodyEmptyMapping ==
    \A v \in Variants :
        (Answered(v) /\ Is2xx /\ Len(env.body) = 0) =>
            /\ res[v].kind = "ok"
            /\ ~res[v].out.nil
            /\ DOMAIN res[v].out.m = {}

\* C5 witness: both clients returned from a 2xx response without a body, one
\* of them through postJSON.
C5_Witness ==
    /\ \A v \in Variants : Answered(v) /\ res[v].kind = "ok"
    /\ Is2xx /\ Len(env.body) = 0
    /\ args.method \in ImageMethods

\* C6, as claimed: a 2xx response whose body is not empty and not a JSON
\* object gives an error or a panic whose text holds the body.
C6_NonObjectBodyIsAnError ==
    \A v \in Variants :
        (Answered(v) /\ Is2xx /\ env.body # <<>> /\ env.body \notin ObjectBodies) =>
            Failed(v) /\ Contains(res[v].msg, env.body)

\* C6, amended: a 2xx response whose body is not empty, not a JSON object
\* and not the JSON value null gives an error or a panic whose text holds the
\* body; the body null gives a nil mapping and no error.
C6_UndecodableBodyIsAnError ==
    \A v \in Variants :
        (Answered(v) /\ Is2xx /\ env.body # <<>> /\ env.body \notin ObjectBodies) =>
            IF env.body \in NullBodies
            THEN res[v].kind = "ok" /\ res[v].out.nil
            ELSE Failed(v) /\ res[v].out.nil /\ Contains(res[v].msg, env.body)

\* C6 witness: a 2xx response that breaks off inside an object made both
\* clients fail.
C6_Witness ==
    /\ \A v \in Variants : Answered(v) /\ res[v].stage = "decode"
    /\ Is2xx
    /\ env.body = <<"{", QUOTE, "vin", QUOTE, ":">>

\* C7: the request of an endpoint method has the verb and the path of the
\* endpoint table, under base_url + "/"; the query of a GET method is
\* exactly key, source and the caller's entries with a value other than "".
C7_EndpointTable ==
    \A v \in Variants : \A i \in DOMAIN Sent(v) :
        args.method \in GetMethods \cup ImageMethods =>
            /\ Sent(v)[i].Method = VerbOf(args.method)
            /\ SentPrefix(Sent(v)[i]) = c.baseURL \o <<SLASH>> \o PathOf(args.method)
            /\ args.method \in GetMethods =>
                  SentQuery(Sent(v)[i]) = ExpectedQuery(args.params)

\* C7 witness: the README's PlateDecoder call from a default client.
C7_Witness ==
    /\ args.method = "PlateDecoder" /\ args.params = ReadmeParams
    /\ c = New(<<"YOUR_API_KEY">>, <<>>)
    /\ \A v \in Variants :
          /\ Len(Sent(v)) = 1
          /\ SentPrefix(Sent(v)[1]) = <<"https://api.carsxe.com", "/", "v2", "/", "platedecoder">>
          /\ SentQuery(Sent(v)[1]) =
                [n \in {"key", "source", "plate", "state", "country"} |->
                    CASE n = "key" -> <<(<<"YOUR_API_KEY">>)>>
                      [] n = "source" -> <<(<<"go">>)>>
                      [] n = "plate" -> <<(<<"7XER187">>)>>
                      [] n = "state" -> <<(<<"CA">>)>>
                      [] n = "country" -> <<(<<"US">>)>>]

\* C8: a request of PlateImageRecognition or VinOCR is a POST whose body
\* decodes to a JSON object with the one field image, a string equal to the
\* caller's image URL, whose Content-Type is application/json and whose query
\* is key and source and nothing else; a GET request has no body.
C8_ImagePostBody ==
    \A v \in Variants : \A i \in DOMAIN Sent(v) :
        IF args.method \in ImageMethods
        THEN /\ Sent(v)[i].Method = "POST"
             /\ Unmarshal(Sent(v)[i].Body) =
                   [err |-> NoErr,
                    out |-> MakeMap([k \in {<<"image">>} |->
                                        [kind |-> "string", text |-> args.imageURL]])]
             /\ DOMAIN Sent(v)[i].Header = {"Content-Type"}
             /\ Sent(v)[i].Header["Content-Type"] = "application/json"
             /\ SentQuery(Sent(v)[i]) = ExpectedQuery(NilMap)
        ELSE Sent(v)[i].Method = "GET" /\ Sent(v)[i].Body = <<>>

\* C8 witness: VinOCR sent an image URL that holds white space, "&" and
\* double quotes.
C8_Witness ==
    /\ args.method = "VinOCR"
    /\ args.imageURL # <<>> /\ args.imageURL[1] = SP
    /\ {QUOTE, AMP} \subseteq {args.imageURL[i] : i \in DOMAIN args.imageURL}
    /\ \A v \in Variants : Len(Sent(v)) = 1

C10_VariantsAgree ==
    ((\A v \in Variants : Returned(v)) /\ ~args.ctxNil) =>
        /\ (res["panic"].kind = "panic") <=> (res["error"].kind = "error")
        /\ res["panic"].out = res["error"].out
        /\ res["panic"].sent = res["error"].sent

=============================================================================
